---------------------------- MODULE Spec2Model ----------------------------
(***************************************************************************)
(* A model of tarot_rankings.py: parse_excel_all_sheets aggregates the     *)
(* rows of every worksheet into a mapping player -> (scores, points), and  *)
(* compute_top_k_and_totals turns that mapping into the ranked table.      *)
(*                                                                         *)
(* A Python str is a sequence of one-character strings, so that strip(),   *)
(* float() and the comparison of names are computed rather than assumed.   *)
(* A value (None, a str, an int, a float) is a record [t, n, s].  A float  *)
(* is nan, inf, -inf or a multiple of 1/Unit, on which Python's float      *)
(* arithmetic is exact; a float that is no multiple of 1/Unit has no value *)
(* in the model, and 0.0 and -0.0 are one value.  A dict is the sequence   *)
(* of its items in insertion order.                                        *)
(***************************************************************************)
EXTENDS Integers, Sequences, FiniteSets, TLC

START_ROW_IDX_1BASED == 4
END_ROW_IDX_1BASED == 100
TOP_K == 15

\* At most MaxRows rows of a workbook are drawn freely; the others are empty.
MaxRows == 3
\* compute_top_k_and_totals is called with k in 1..MaxK, or with TOP_K.
MaxK == 2

VARIABLES
    wb,              \* wb.worksheets: each worksheet's max_row
    pc,              \* "sheets", "rows", "parsed", "done"
    si,              \* number of worksheets the outer loop has taken
    r,               \* the row the inner loop reads next
    end,             \* the inner loop's last row
    scanned,         \* the rows read so far, in the order read
    player_to_data,  \* the dict parse_excel_all_sheets builds
    player_data,     \* what parse_excel_all_sheets returned
    k,               \* compute_top_k_and_totals' k
    rows_with_meta,  \* rows_with_meta after the sort for ranking
    headers,         \* the headers returned
    ranked_rows      \* the rows returned

vars == <<wb, pc, si, r, end, scanned, player_to_data, player_data, k,
          rows_with_meta, headers, ranked_rows>>

---------------------------------------------------------------------------
(* Values *)

None == [t |-> "none", n |-> 0, s |-> <<>>]
\* the int x
Num(x) == [t |-> "int", n |-> x, s |-> <<>>]
Str(x) == [t |-> "str", n |-> 0, s |-> x]

\* The finite floats of the model are the multiples of 1/Unit.
Unit == 4
\* the float q / Unit
Fin(q) == [t |-> "float", n |-> q, s |-> <<>>]
NaN == [t |-> "nan", n |-> 0, s |-> <<>>]
\* inf for sign = 1 and -inf for sign = -1
Inf(sign) == [t |-> "inf", n |-> sign, s |-> <<>>]

Min(a, b) == IF a <= b THEN a ELSE b

DigitChar == <<"0", "1", "2", "3", "4", "5", "6", "7", "8", "9">>

\* The characters of the model with their code points: blanks (tab, line
\* feed, form feed, carriage return, space, no-break space), the characters
\* of numerals, letters, and, written U+nnnn, two Arabic-Indic digits and the
\* em space.
CodePoints ==
    { <<"\t", 9>>, <<"\n", 10>>, <<"\f", 12>>, <<"\r", 13>>, <<" ", 32>>,
      <<"+", 43>>, <<"-", 45>>, <<".", 46>>,
      <<"0", 48>>, <<"1", 49>>, <<"2", 50>>, <<"3", 51>>, <<"4", 52>>,
      <<"5", 53>>, <<"6", 54>>, <<"7", 55>>, <<"8", 56>>, <<"9", 57>>,
      <<"A", 65>>, <<"B", 66>>, <<"E", 69>>, <<"F", 70>>, <<"I", 73>>,
      <<"N", 78>>, <<"T", 84>>, <<"Y", 89>>, <<"_", 95>>,
      <<"a", 97>>, <<"e", 101>>, <<"f", 102>>, <<"i", 105>>, <<"n", 110>>,
      <<"t", 116>>, <<"x", 120>>, <<"y", 121>>,
      <<" ", 160>>,
      <<"U+0662", 1634>>, <<"U+0663", 1635>>, <<"U+06F1", 1777>>,
      <<"U+0967", 2407>>, <<"U+2003", 8195>>, <<"U+FF11", 65297>>,
      <<"U+FF15", 65301>> }

\* c |-> ord(c)
CodePointOf ==
    [c \in {p[1] : p \in CodePoints} |-> (CHOOSE p \in CodePoints : p[1] = c)[2]]

\* ord(c)
Ord(c) == CodePointOf[c]

OrdSeq(s) == [i \in 1..Len(s) |-> Ord(s[i])]

\* str.isspace() of the character with code point o
IsSpaceCode(o) ==
    o \in (9..13) \cup (28..32) \cup {133, 160, 5760} \cup (8192..8202)
          \cup {8232, 8233, 8239, 8287, 12288}

\* The code points of the digit zero of every script (the Unicode decimal
\* digits, category Nd, come in runs of ten from a zero on).
DecimalZeros ==
    { 48, 1632, 1776, 1984, 2406, 2534, 2662, 2790,
      2918, 3046, 3174, 3302, 3430, 3558, 3664, 3792,
      3872, 4160, 4240, 6112, 6160, 6470, 6608, 6784,
      6800, 6992, 7088, 7232, 7248, 42528, 43216, 43264,
      43472, 43504, 43600, 44016, 65296, 66720, 68912, 69734,
      69872, 69942, 70096, 70384, 70736, 70864, 71248, 71360,
      71472, 71904, 72016, 72784, 73040, 73120, 92768, 92864,
      93008, 120782, 120792, 120802, 120812, 120822, 123200, 123632,
      125264, 130032 }

\* The digit value of the character with code point o if it is a decimal
\* digit of any script, -1 otherwise.
DecimalValue(o) ==
    IF \E z \in DecimalZeros : o \in z..(z + 9)
    THEN o - (CHOOSE z \in DecimalZeros : o \in z..(z + 9))
    ELSE -1

IsDigit(o) == o \in 48..57

RECURSIVE DigitsOf(_)
DigitsOf(x) == IF x < 10 THEN <<x>> ELSE Append(DigitsOf(x \div 10), x % 10)

\* str(x) of an int
StrOfInt(x) ==
    IF x < 0
    THEN <<"-">> \o [i \in 1..Len(DigitsOf(-x)) |-> DigitChar[DigitsOf(-x)[i] + 1]]
    ELSE [i \in 1..Len(DigitsOf(x)) |-> DigitChar[DigitsOf(x)[i] + 1]]

\* str(v) of a cell value that is a str or an int: openpyxl gives a whole
\* number as an int.
StrOf(v) ==
    CASE v.t = "str" -> v.s
      [] v.t = "int" -> StrOfInt(v.n)

\* s.strip()
strip(s) ==
    LET keep == {i \in 1..Len(s) : ~IsSpaceCode(Ord(s[i]))}
        first == CHOOSE i \in keep : \A j \in keep : i <= j
        last == CHOOSE i \in keep : \A j \in keep : j <= i
    IN  IF keep = {} THEN <<>> ELSE SubSeq(s, first, last)

---------------------------------------------------------------------------
(* float(): a str is given as its code points *)

\* float() first turns a decimal digit into its ASCII digit and a blank that
\* is not ASCII into a space; another character that is not ASCII becomes "?".
ToASCII(o) ==
    IF o < 127 THEN o
    ELSE IF IsSpaceCode(o) THEN 32
    ELSE IF DecimalValue(o) >= 0 THEN 48 + DecimalValue(o)
    ELSE 63

\* An underscore is allowed between two digits only.
UnderscoresOK(a) ==
    \A i \in 1..Len(a) :
        a[i] = 95 => /\ i > 1 /\ IsDigit(a[i - 1])
                     /\ i < Len(a) /\ IsDigit(a[i + 1])

\* The blanks float() strips from the ASCII text: " ", \t, \n, \v, \f, \r.
StripASCII(a) ==
    LET keep == {i \in 1..Len(a) : a[i] \notin (9..13) \cup {32}}
        first == CHOOSE i \in keep : \A j \in keep : i <= j
        last == CHOOSE i \in keep : \A j \in keep : j <= i
    IN  IF keep = {} THEN <<>> ELSE SubSeq(a, first, last)

Lower(o) == IF o \in 65..90 THEN o + 32 ELSE o

\* The number of digits of a from position i on.
RECURSIVE DigitRun(_, _)
DigitRun(a, i) ==
    IF i <= Len(a) /\ IsDigit(a[i]) THEN 1 + DigitRun(a, i + 1) ELSE 0

RECURSIVE IntOfDigits(_)
IntOfDigits(a) ==
    IF a = <<>> THEN 0
    ELSE 10 * IntOfDigits(SubSeq(a, 1, Len(a) - 1)) + (a[Len(a)] - 48)

RECURSIVE Pow10(_)
Pow10(x) == IF x = 0 THEN 1 ELSE 10 * Pow10(x - 1)

\* m * 10^x in units of 1/Unit.  A numeral that is no multiple of 1/Unit has
\* no value in the model.
Scaled(m, x) ==
    CASE m = 0 -> 0
      [] m # 0 /\ x >= 0 -> Unit * m * Pow10(x)
      [] m # 0 /\ x < 0 /\ (Unit * m) % Pow10(-x) = 0 -> (Unit * m) \div Pow10(-x)

\* The unsigned numeral a: digits, "." and digits, "e" or "E", a sign and
\* digits; with a digit before the exponent, and a digit in the exponent.
\* The value v of a numeral with a digit that is not 0 has
\* 10^(mag - 1) <= v < 10^mag: beyond the doubles it is inf, and below the
\* least of them 0.0.
ParseNumeral(a) ==
    LET n1 == DigitRun(a, 1)
        dot == n1 + 1 <= Len(a) /\ a[n1 + 1] = 46
        n2 == IF dot THEN DigitRun(a, n1 + 2) ELSE 0
        q == IF dot THEN n1 + 2 + n2 ELSE n1 + 1
        exp == q <= Len(a) /\ Lower(a[q]) = 101
        esign == exp /\ q + 1 <= Len(a) /\ a[q + 1] \in {43, 45}
        e1 == IF esign THEN q + 2 ELSE q + 1
        n3 == IF exp THEN DigitRun(a, e1) ELSE 0
        digits == SubSeq(a, 1, n1) \o SubSeq(a, n1 + 2, n1 + 1 + n2)
        x == IF ~exp THEN 0
             ELSE IF esign /\ a[q + 1] = 45 THEN -IntOfDigits(SubSeq(a, e1, Len(a)))
             ELSE IntOfDigits(SubSeq(a, e1, Len(a)))
        nz == {i \in 1..Len(digits) : digits[i] # 48}
        mag == Len(digits) + 1 - (CHOOSE i \in nz : \A j \in nz : i <= j) + (x - n2)
    IN  IF /\ n1 + n2 >= 1
           /\ \/ q = Len(a) + 1
              \/ exp /\ n3 >= 1 /\ e1 + n3 = Len(a) + 1
        THEN [ok |-> TRUE,
              val |-> IF nz = {} THEN Fin(0)
                      ELSE IF mag >= 310 THEN Inf(1)
                      ELSE IF mag <= -324 THEN Fin(0)
                      ELSE Fin(Scaled(IntOfDigits(digits), x - n2))]
        ELSE [ok |-> FALSE, val |-> NaN]

\* The float the ASCII text b stands for, b stripped and without underscores:
\* a sign, then inf, infinity or nan in any case, or a numeral.
ParseStripped(b) ==
    LET signed == b # <<>> /\ b[1] \in {43, 45}
        sign == IF signed /\ b[1] = 45 THEN -1 ELSE 1
        body == IF signed THEN Tail(b) ELSE b
        word == [i \in 1..Len(body) |-> Lower(body[i])]
    IN  IF b = <<>> THEN [ok |-> FALSE, val |-> NaN]
        ELSE IF word \in {<<105, 110, 102>>,
                          <<105, 110, 102, 105, 110, 105, 116, 121>>}
             THEN [ok |-> TRUE, val |-> Inf(sign)]
        ELSE IF word = <<110, 97, 110>> THEN [ok |-> TRUE, val |-> NaN]
        ELSE IF ParseNumeral(body).ok
             THEN [ok |-> TRUE,
                   val |-> IF ParseNumeral(body).val.t = "inf" THEN Inf(sign)
                           ELSE Fin(sign * ParseNumeral(body).val.n)]
        ELSE [ok |-> FALSE, val |-> NaN]

\* float(s) of the str with code points o: [ok |-> FALSE] stands for the
\* ValueError.  (b is the value of the stripped text.)
ParseFloat(o) ==
    LET a == [i \in 1..Len(o) |-> ToASCII(o[i])]
    IN  IF ~UnderscoresOK(a) THEN [ok |-> FALSE, val |-> NaN]
        ELSE CHOOSE res \in {ParseStripped(b) :
                                b \in {StripASCII(SelectSeq(a, LAMBDA c : c # 95))}} : TRUE

\* float(v): [ok |-> FALSE] stands for the exception float raises.
float(v) ==
    CASE v.t = "int" -> [ok |-> TRUE, val |-> Fin(Unit * v.n)]
      [] v.t \in {"float", "nan", "inf"} -> [ok |-> TRUE, val |-> v]
      [] v.t = "str" -> ParseFloat(OrdSeq(v.s))
      [] v.t = "none" -> [ok |-> FALSE, val |-> NaN]

---------------------------------------------------------------------------
(* Numbers: ==, <, unary minus and + of Python on ints and floats *)

IsNumber(v) == v.t \in {"int", "float", "nan", "inf"}

\* A finite number in units of 1/Unit.
Units(v) == IF v.t = "int" THEN Unit * v.n ELSE v.n

\* a == b: nan is equal to nothing, itself included.
PyEq(a, b) ==
    IF IsNumber(a) /\ IsNumber(b)
    THEN /\ a.t # "nan" /\ b.t # "nan"
         /\ IF a.t = "inf" \/ b.t = "inf"
            THEN a.t = b.t /\ a.n = b.n
            ELSE Units(a) = Units(b)
    ELSE a = b

\* a < b for two strs (or tuples of ints) given as integer sequences
SeqLess(a, b) ==
    \/ \E i \in 1..Min(Len(a), Len(b)) :
          a[i] < b[i] /\ \A j \in 1..(i - 1) : a[j] = b[j]
    \/ Len(a) < Len(b) /\ \A j \in 1..Len(a) : a[j] = b[j]

\* a < b for two numbers or two strs: nan is less than nothing and nothing is
\* less than nan.
PyLt(a, b) ==
    CASE a.t = "str" /\ b.t = "str" -> SeqLess(OrdSeq(a.s), OrdSeq(b.s))
      [] IsNumber(a) /\ IsNumber(b) ->
            /\ a.t # "nan" /\ b.t # "nan"
            /\ IF a.t = "inf" THEN a.n = -1 /\ ~(b.t = "inf" /\ b.n = -1)
               ELSE IF b.t = "inf" THEN b.n = 1
               ELSE Units(a) < Units(b)

\* -a
Neg(a) ==
    CASE a.t = "int" -> Num(-a.n)
      [] a.t = "float" -> Fin(-a.n)
      [] a.t = "inf" -> Inf(-a.n)
      [] a.t = "nan" -> NaN

\* a + b
Add(a, b) ==
    IF a.t = "int" /\ b.t = "int" THEN Num(a.n + b.n)
    ELSE IF a.t = "nan" \/ b.t = "nan" THEN NaN
    ELSE IF a.t = "inf" /\ b.t = "inf" THEN (IF a.n = b.n THEN a ELSE NaN)
    ELSE IF a.t = "inf" THEN a
    ELSE IF b.t = "inf" THEN b
    ELSE Fin(Units(a) + Units(b))

\* acc + s[0] + s[1] + ... (x is the value of acc + s[0])
RECURSIVE SumFrom(_, _)
SumFrom(acc, s) ==
    IF s = <<>> THEN acc
    ELSE CHOOSE res \in {SumFrom(x, Tail(s)) : x \in {Add(acc, s[1])}} : TRUE

\* sum(s): 0 + s[0] + s[1] + ...
sum(s) == SumFrom(Num(0), s)

\* list(zip(a, b))
zip(a, b) == [i \in 1..Min(Len(a), Len(b)) |-> <<a[i], b[i]>>]

RECURSIVE Join(_)
\* "".join(chars)
Join(chars) == IF chars = <<>> THEN "" ELSE chars[1] \o Join(Tail(chars))

---------------------------------------------------------------------------
(* parse_excel_all_sheets *)

\* ln is None or str(ln).strip() == ""
IsBlankName(v) == v = None \/ strip(StrOf(v)) = <<>>

\* StrippedName without the strip().
UnstrippedName(v) == IF v # None THEN StrOf(v) ELSE <<>>

\* str(ln).strip() if ln is not None else ""
StrippedName(v) == IF v # None THEN strip(StrOf(v)) ELSE <<>>

\* float(pt) if pt is not None else 0.0, and 0.0 when float raises
NumericPoints(pt) ==
    IF pt # None
    THEN (IF float(pt).ok THEN float(pt).val ELSE Fin(0))
    ELSE Fin(0)

\* Lines 58-64: the score of the row; ok is FALSE where the loop continues
\* (sc is None, or float(sc) raises).
NumericScore(sc) ==
    IF sc = None THEN [ok |-> FALSE, val |-> NaN] ELSE float(sc)

\* The index of key in the dict, 0 when it is not a key.
IndexOfKey(d, key) ==
    IF \E i \in 1..Len(d) : d[i].key = key
    THEN CHOOSE i \in 1..Len(d) : d[i].key = key
    ELSE 0

\* AppendContribution with a new entry for every row, the key never looked up.
AppendContributionNoMerge(d, key, numeric_score, numeric_points) ==
    Append(d, [key |-> key, scores |-> <<numeric_score>>,
               points |-> <<numeric_points>>])

\* Lines 77-81: the entry of key is created empty when missing, then the
\* score and the points are appended to its two lists.
AppendContribution(d, key, numeric_score, numeric_points) ==
    LET d1 == IF IndexOfKey(d, key) = 0
              THEN Append(d, [key |-> key, scores |-> <<>>, points |-> <<>>])
              ELSE d
        i == IndexOfKey(d1, key)
    IN  [d1 EXCEPT ![i].scores = Append(@, numeric_score),
                   ![i].points = Append(@, numeric_points)]

\* The body of the row loop, lines 51-81, on the four cells of one row.
ProcessRow(d, row) ==
    IF IsBlankName(row.ln) /\ IsBlankName(row.fn) THEN d
    ELSE IF ~NumericScore(row.sc).ok THEN d
    ELSE LET numeric_score == NumericScore(row.sc).val
             numeric_points == NumericPoints(row.pt)
             last_name == StrippedName(row.ln)
             first_name == StrippedName(row.fn)
         IN  IF last_name = <<>> /\ first_name = <<>> THEN d
             ELSE AppendContribution(d, <<last_name, first_name>>,
                                     numeric_score, numeric_points)

\* Line 84: {k: v for k, v in player_to_data.items() if v[0]}
KeepPlayersWithScore(d) == SelectSeq(d, LAMBDA e : e.scores # <<>>)

---------------------------------------------------------------------------
(* list.sort(key=...) as CPython sorts a list of fewer than 64 items: the   *)
(* run at the head of the list is found (and reversed if it descends), and  *)
(* the other items are put into it one by one by binary insertion.  With    *)
(* keys that a total order compares this is the stable sort; with a nan in *)
(* a key the result depends on the order before the sort.  A key is a      *)
(* tuple of values.                                                        *)

\* k1 < k2 for two tuples: the first components that are not == decide.
TupleLess(k1, k2) ==
    LET diff == {i \in 1..Min(Len(k1), Len(k2)) : ~PyEq(k1[i], k2[i])}
        i == CHOOSE x \in diff : \A y \in diff : x <= y
    IN  IF diff = {} THEN Len(k1) < Len(k2) ELSE PyLt(k1[i], k2[i])

\* k1 != k2 for two tuples
TupleNe(k1, k2) ==
    \/ Len(k1) # Len(k2)
    \/ \E i \in 1..Len(k1) : ~PyEq(k1[i], k2[i])

\* count_run on a list s of <<key, item>>, from a run of n >= 2 items on: the
\* run goes on while the next key is less than its predecessor (descending)
\* or is not (ascending).
RECURSIVE RunLength(_, _, _)
RunLength(s, n, descending) ==
    IF n < Len(s) /\ TupleLess(s[n + 1][1], s[n][1]) = descending
    THEN RunLength(s, n + 1, descending)
    ELSE n

\* count_run on the whole list, of at least one item
count_run(s) ==
    IF Len(s) = 1 THEN [n |-> 1, descending |-> FALSE]
    ELSE LET descending == TupleLess(s[2][1], s[1][1])
         IN  [n |-> RunLength(s, 2, descending), descending |-> descending]

\* binarysort's search for the place of pivot in s[lo..hi-1] (0-based, the
\* l and r of the C code)
RECURSIVE BinarySearch(_, _, _, _)
BinarySearch(s, pivot, lo, hi) ==
    LET p == lo + ((hi - lo) \div 2)
    IN  IF TupleLess(pivot, s[p + 1][1])
        THEN (IF lo < p THEN BinarySearch(s, pivot, lo, p) ELSE lo)
        ELSE (IF p + 1 < hi THEN BinarySearch(s, pivot, p + 1, hi) ELSE p + 1)

\* One step of binarysort: s[start] put at its place among the start items
\* before it (0-based).
InsertPivot(s, start) ==
    LET pivot == s[start + 1]
        l == BinarySearch(s, pivot[1], 0, start)
    IN  SubSeq(s, 1, l) \o <<pivot>> \o SubSeq(s, l + 1, start)
            \o SubSeq(s, start + 2, Len(s))

\* binarysort: s is a list of <<key, item>> whose first start items are
\* sorted (s1 is the value of the list after one step)
RECURSIVE binarysort(_, _)
binarysort(s, start) ==
    IF start >= Len(s) THEN s
    ELSE CHOOSE out \in {binarysort(s1, start + 1) :
                            s1 \in {InsertPivot(s, start)}} : TRUE

\* The list s of <<key, item>>, of two items or more, sorted by the keys.
SortKeyed(s) ==
    LET run == count_run(s)
        head == IF run.descending
                THEN [i \in 1..Len(s) |->
                         IF i <= run.n THEN s[run.n + 1 - i] ELSE s[i]]
                ELSE s
    IN  binarysort(SubSeq(head, 1, Len(s)), run.n)

\* s.sort(key=...), keys[i] being the key of s[i] (keyed is the value of the
\* list of the items with their keys)
sort(s, keys) ==
    IF Len(s) < 2 THEN s
    ELSE LET out == CHOOSE x \in {SortKeyed(keyed) :
                        keyed \in {SubSeq([i \in 1..Len(s) |-> <<keys[i], s[i]>>],
                                          1, Len(s))}} : TRUE
         IN  [i \in 1..Len(s) |-> out[i][2]]

---------------------------------------------------------------------------
(* compute_top_k_and_totals *)

\* Line 94: key=lambda x: (-x[0], -x[1]) on x = (points, score)
CombinedKey(x) == <<Neg(x[1]), Neg(x[2])>>

\* Line 96: combined[:k]
TopCombined(combined, kk) == SubSeq(combined, 1, Min(kk, Len(combined)))

\* Lines 105-107: [last_name, first_name, play_count] + top_points, padded
\* with "" to 3 + k fields.
PaddedBaseRow(last_name, first_name, play_count, top_points, kk) ==
    LET base_row == <<Str(last_name), Str(first_name), Num(play_count)>>
                    \o top_points
    IN  base_row \o [i \in 1..(3 + kk - Len(base_row)) |-> Str(<<>>)]

\* Lines 97-109: the entry of rows_with_meta of the player key with the
\* contributions kept.
RowWithMeta(key, top_combined, kk) ==
    LET top_points == [i \in 1..Len(top_combined) |-> top_combined[i][1]]
        top_scores == [i \in 1..Len(top_combined) |-> top_combined[i][2]]
        total_score == sum(top_scores)
        total_points == sum(top_points)
        play_count == Len(top_combined)
    IN  [base_row |-> PaddedBaseRow(key[1], key[2], play_count, top_points, kk)
                      \o <<total_score, total_points>>,
         play_count |-> play_count,
         total_score |-> total_score,
         total_points |-> total_points,
         ln |-> key[1],
         fn |-> key[2]]

\* Lines 93-109: the entry of rows_with_meta of one player.
PlayerRow(e, kk) ==
    LET zipped == zip(e.points, e.scores)
        combined == sort(zipped, [i \in 1..Len(zipped) |-> CombinedKey(zipped[i])])
    IN  CHOOSE row \in {RowWithMeta(e.key, top_combined, kk) :
                           top_combined \in {TopCombined(combined, kk)}} : TRUE

\* Lines 112-113
Headers(kk) ==
    LET points_cols == [i \in 1..kk |-> Join(StrOfInt(i))]
    IN  <<"Classement", "Nom", "Prénom", "Participations">> \o points_cols
        \o <<"Totaux">> \o <<"Scores", "Points">>

\* Line 116: key=lambda t: (-t[3], -t[2], t[4], t[5])
RankingKey(t) ==
    <<Neg(t.total_points), Neg(t.total_score), Str(t.ln), Str(t.fn)>>

\* Lines 122-129 from row i on (1-based; enumerate's i is i - 1): last_key is
\* <<>> for None.
RECURSIVE RankLoop(_, _, _, _)
RankLoop(rows, i, classement, last_key) ==
    IF i > Len(rows) THEN <<>>
    ELSE LET key == <<rows[i].total_points, rows[i].total_score>>
         IN  IF last_key = <<>> \/ TupleNe(key, last_key)
             THEN <<<<Num((i - 1) + 1)>> \o rows[i].base_row>>
                      \o RankLoop(rows, i + 1, (i - 1) + 1, key)
             ELSE <<<<Num(classement)>> \o rows[i].base_row>>
                      \o RankLoop(rows, i + 1, classement, last_key)

\* Lines 119-129 (sorted is the value of rows)
AssignRanks(rows) ==
    CHOOSE out \in {RankLoop(sorted, 1, 0, <<>>) : sorted \in {SubSeq(rows, 1, Len(rows))}} : TRUE

\* FinalKey with the two names swapped: (r[0], r[2], r[1])
FinalKeyGivenNameFirst(row) == <<row[1], row[3], row[2]>>

\* Line 132: key=lambda r: (r[0], r[1], r[2])
FinalKey(row) == <<row[1], row[2], row[3]>>

\* rows_with_meta after line 116
SortedRowsWithMeta(d, kk) ==
    LET rows == [i \in 1..Len(d) |-> PlayerRow(d[i], kk)]
    IN  sort(rows, [i \in 1..Len(rows) |-> RankingKey(rows[i])])

\* ranked_rows after line 132
RankedRows(d, kk) ==
    LET rows == AssignRanks(SortedRowsWithMeta(d, kk))
    IN  sort(rows, [i \in 1..Len(rows) |-> FinalKey(rows[i])])

---------------------------------------------------------------------------
(* The workbooks and rows the model reads *)

Row(ln, fn, sc, pt) == [ln |-> ln, fn |-> fn, sc |-> sc, pt |-> pt]

EmptyRow == Row(None, None, None, None)

\* The rows a worksheet may hold: three players, (A, B), (B, A) and (-7, ""),
\* with ints and with numerals as texts (one with an underscore, an
\* Arabic-Indic digit, a negative one with a fraction, one with a sign, an
\* exponent and blanks around it), points that are -inf and nan, blanks
\* around the names, no points, points or a score that are no number, no
\* score, blank names.
RowSet ==
    { Row(Str(<<"A">>), Str(<<"B">>), Str(<<"1", "_", "0">>), Num(1)),
      Row(Str(<<"A">>), Str(<<"B">>), Num(1), Num(2)),
      Row(Str(<<"B">>), Str(<<"A">>), Num(10), Num(1)),
      Row(Str(<<"B">>), Str(<<"A">>), Num(1), Str(<<"U+0662">>)),
      Row(Num(-7), None, Str(<<"-", "1", ".", "5">>), Str(<<"-", "I", "n", "f">>)),
      Row(Str(<<"\t", "A">>), Str(<<"B", " ">>),
          Str(<<" ", "+", "2", "e", "0", "\n">>), None),
      Row(Str(<<"B">>), Str(<<"A">>), Num(1), Str(<<"x">>)),
      Row(Str(<<"A">>), Str(<<"B">>), Str(<<"x">>), Num(1)),
      Row(Str(<<"A">>), Str(<<"B">>), None, Num(2)),
      Row(None, Str(<<" ", "\t">>), Num(2), Num(2)),
      Row(Str(<<"B">>), Str(<<"A">>), Num(1), Str(<<"n", "a", "n">>)),
      Row(Str(<<"A">>), Str(<<"B">>), Str(<<"n", "a", "n">>), Num(1)),
      EmptyRow }

\* ws.max_row of each worksheet of the workbooks read: no worksheet; an empty
\* one; four with MaxRows rows in their windows, the first window empty; one
\* worksheet longer than the window.
Workbooks ==
    { <<>>,
      <<0>>,
      <<START_ROW_IDX_1BASED - 1, START_ROW_IDX_1BASED, 0,
        START_ROW_IDX_1BASED + MaxRows - 2>>,
      <<END_ROW_IDX_1BASED + 1>> }

KChoices == (1..MaxK) \cup {TOP_K}

\* The number of rows read so far that were drawn from RowSet.
DrawnRows == Cardinality({i \in 1..Len(scanned) : scanned[i].drawn})

\* cell(ws, r, ...) of the four columns: the last MaxRows - 1 rows of a window
\* are drawn from RowSet while fewer than MaxRows rows were drawn, every other
\* row is empty.
CellsOfRow ==
    IF end - r < MaxRows - 1 /\ DrawnRows < MaxRows
    THEN [row : RowSet, drawn : {TRUE}]
    ELSE {[row |-> EmptyRow, drawn |-> FALSE]}

---------------------------------------------------------------------------
(* The state machine *)

Init ==
    /\ wb \in Workbooks
    /\ pc = "sheets"
    /\ si = 0
    /\ r = 0
    /\ end = 0
    /\ scanned = <<>>
    /\ player_to_data = <<>>
    /\ player_data = <<>>
    /\ k = 0
    /\ rows_with_meta = <<>>
    /\ headers = <<>>
    /\ ranked_rows = <<>>

\* Lines 43-48: the next worksheet and its row window.
NextSheet ==
    /\ pc = "sheets"
    /\ si < Len(wb)
    /\ si' = si + 1
    /\ LET max_row == wb[si + 1]
           start == START_ROW_IDX_1BASED
           e == Min(END_ROW_IDX_1BASED, max_row)
       IN  /\ end' = e
           /\ r' = start
           /\ pc' = IF start > e THEN "sheets" ELSE "rows"
    /\ UNCHANGED <<wb, scanned, player_to_data, player_data, k,
                   rows_with_meta, headers, ranked_rows>>

\* Lines 50-81: one row of the window.
ReadRow ==
    /\ pc = "rows"
    /\ \E c \in CellsOfRow :
          /\ scanned' = Append(scanned, c)
          /\ player_to_data' = ProcessRow(player_to_data, c.row)
    /\ r' = r + 1
    /\ pc' = IF r = end THEN "sheets" ELSE "rows"
    /\ UNCHANGED <<wb, si, end, player_data, k, rows_with_meta, headers,
                   ranked_rows>>

\* Line 84: the return of parse_excel_all_sheets.
ReturnPlayers ==
    /\ pc = "sheets"
    /\ si = Len(wb)
    /\ player_data' = KeepPlayersWithScore(player_to_data)
    /\ pc' = "parsed"
    /\ UNCHANGED <<wb, si, r, end, scanned, player_to_data, k,
                   rows_with_meta, headers, ranked_rows>>

\* Lines 87-134, called with k (run calls it with TOP_K).
Compute ==
    /\ pc = "parsed"
    /\ \E kk \in KChoices :
          /\ k' = kk
          /\ rows_with_meta' = SortedRowsWithMeta(player_data, kk)
          /\ headers' = Headers(kk)
          /\ ranked_rows' = RankedRows(player_data, kk)
    /\ pc' = "done"
    /\ UNCHANGED <<wb, si, r, end, scanned, player_to_data, player_data>>

Next == NextSheet \/ ReadRow \/ ReturnPlayers \/ Compute

Spec == Init /\ [][Next]_vars


---------------------------------------------------------------------------
(* Reading the input and the result *)

ScannedRows == [i \in 1..Len(scanned) |-> scanned[i].row]

\* The row is a contribution: its names are not both blank and its score is
\* a number.
Accepted(row) ==
    /\ ~(IsBlankName(row.ln) /\ IsBlankName(row.fn))
    /\ row.sc.t # "none"
    /\ float(row.sc).ok

\* The cell holds a real number, or a text that stands for one: float() reads
\* it, and what it reads is neither nan nor an infinity.
ParsesAsReal(cell) ==
    /\ cell.t # "none"
    /\ float(cell).ok
    /\ float(cell).val.t = "float"

\* The row's points cell is empty or is a text float() raises on.
PointsMissing(row) == row.pt.t = "none" \/ ~float(row.pt).ok

\* The row has a name and a score that is a real number, and its points cell
\* is empty or is not a real number.
PointsNotReal(row) ==
    /\ ~(IsBlankName(row.ln) /\ IsBlankName(row.fn))
    /\ ParsesAsReal(row.sc)
    /\ ~ParsesAsReal(row.pt)

\* The name of a cell, trimmed of surrounding blanks; "" for an empty cell.
TrimmedName(v) == IF v.t = "none" THEN <<>> ELSE strip(StrOf(v))

Identity(row) == <<TrimmedName(row.ln), TrimmedName(row.fn)>>

AcceptedOf(key) ==
    SelectSeq(ScannedRows, LAMBDA row : Accepted(row) /\ Identity(row) = key)

AcceptedIdentities ==
    {Identity(ScannedRows[i]) : i \in {j \in 1..Len(scanned) : Accepted(ScannedRows[j])}}

RowRank(row) == row[1].n
RowKey(row) == <<row[2].s, row[3].s>>
RowPlayCount(row) == row[4].n
RowSlot(row, i) == row[4 + i]
RowTotalScore(row) == row[k + 5]
RowTotalPoints(row) == row[k + 6]

\* Every returned row holds a rank, two names, a count, k slots and two totals.
WellFormedRows ==
    \A i \in 1..Len(ranked_rows) :
        /\ Len(ranked_rows[i]) = k + 6
        /\ ranked_rows[i][1].t = "int"
        /\ ranked_rows[i][4].t = "int"
        /\ IsNumber(ranked_rows[i][k + 5])
        /\ IsNumber(ranked_rows[i][k + 6])

\* The row of the player key among the returned rows, 0 when there is none.
RowIndexOf(key) ==
    IF \E i \in 1..Len(ranked_rows) : RowKey(ranked_rows[i]) = key
    THEN CHOOSE i \in 1..Len(ranked_rows) : RowKey(ranked_rows[i]) = key
    ELSE 0

\* a >= b for two numbers
PyGe(a, b) == PyLt(b, a) \/ PyEq(a, b)

\* (total_points, total_score) of row a is greater than that of row b.
PairGreater(a, b) ==
    \/ PyLt(RowTotalPoints(b), RowTotalPoints(a))
    \/ /\ PyEq(RowTotalPoints(a), RowTotalPoints(b))
       /\ PyLt(RowTotalScore(b), RowTotalScore(a))

\* Contribution i of a player is better than contribution j: more points, or
\* the same points and a greater score.
Better(e, i, j) ==
    \/ PyLt(e.points[j], e.points[i])
    \/ PyEq(e.points[i], e.points[j]) /\ PyLt(e.scores[j], e.scores[i])

RECURSIVE SumOver(_, _)
SumOver(f, S) ==
    IF S = {} THEN 0
    ELSE LET i == CHOOSE x \in S : TRUE IN f[i] + SumOver(f, S \ {i})

\* The sum of the floats f[i], i in S.
RECURSIVE FloatSumOver(_, _)
FloatSumOver(f, S) ==
    IF S = {} THEN Fin(0)
    ELSE LET i == CHOOSE x \in S : TRUE IN Add(f[i], FloatSumOver(f, S \ {i}))

\* The number of rows START_ROW..min(END_ROW, max_row).
WindowSize(max_row) ==
    IF max_row > END_ROW_IDX_1BASED
    THEN END_ROW_IDX_1BASED - START_ROW_IDX_1BASED + 1
    ELSE IF max_row >= START_ROW_IDX_1BASED
         THEN max_row - START_ROW_IDX_1BASED + 1
         ELSE 0

StrLess(a, b) == SeqLess(OrdSeq(a), OrdSeq(b))

Perms(n) == {f \in [1..n -> 1..n] : \A i, j \in 1..n : f[i] = f[j] => i = j}

---------------------------------------------------------------------------
(* The claims *)

\* C1: the rank of a player is 1 plus the number of players whose
\* (total_points, total_score) pair is greater, points first and score second;
\* so equal pairs share a rank and a gap follows a tie.
C1_RankCountsGreaterPairs ==
    pc = "done" =>
        /\ WellFormedRows
        /\ \A i \in 1..Len(ranked_rows) :
              RowRank(ranked_rows[i]) =
                  1 + Cardinality({j \in 1..Len(ranked_rows) :
                                      PairGreater(ranked_rows[j], ranked_rows[i])})

\* C2: the headers are rank, surname, given name, play count, the k slot
\* labels, summed score, summed points (k + 6 entries), and every returned row
\* has exactly len(headers) fields.
C2_RowsMatchHeaders ==
    pc = "done" =>
        /\ Len(headers) = k + 6
        /\ \A i \in 1..k : headers[4 + i] = Join(StrOfInt(i))
        /\ \A i \in 1..Len(ranked_rows) : Len(ranked_rows[i]) = Len(headers)

\* C3: play_count is min(k, n), and total_points and total_score are the sums
\* over one same set of play_count contributions none of which is worse, by
\* points and then score, than a contribution left out.
C3_TopKByPointsThenScore ==
    pc = "done" =>
        /\ WellFormedRows
        /\ \A p \in 1..Len(player_data) :
              LET e == player_data[p]
                  n == Len(e.scores)
                  ri == RowIndexOf(e.key)
              IN  /\ ri # 0
                  /\ RowPlayCount(ranked_rows[ri]) = Min(k, n)
                  /\ \E S \in SUBSET (1..n) :
                        /\ Cardinality(S) = Min(k, n)
                        /\ \A i \in S : \A j \in (1..n) \ S : ~Better(e, j, i)
                        /\ RowTotalPoints(ranked_rows[ri]) = FloatSumOver(e.points, S)
                        /\ RowTotalScore(ranked_rows[ri]) = FloatSumOver(e.scores, S)

\* C4: the returned rows are in (rank, surname, given name) ascending order,
\* and two players whose totals differ keep the order the sort for ranking
\* gave them.
C4_FinalOrder ==
    pc = "done" =>
        /\ WellFormedRows
        /\ \A i, j \in 1..Len(ranked_rows) :
              i < j =>
                LET a == ranked_rows[i]
                    b == ranked_rows[j]
                IN  \/ RowRank(a) < RowRank(b)
                    \/ /\ RowRank(a) = RowRank(b)
                       /\ \/ StrLess(a[2].s, b[2].s)
                          \/ a[2].s = b[2].s /\ StrLess(a[3].s, b[3].s)
        /\ \A i, j \in 1..Len(rows_with_meta) :
              LET a == rows_with_meta[i]
                  b == rows_with_meta[j]
              IN  (i < j /\ TupleNe(<<a.total_points, a.total_score>>,
                                    <<b.total_points, b.total_score>>))
                  => /\ RowIndexOf(<<a.ln, a.fn>>) # 0
                     /\ RowIndexOf(<<a.ln, a.fn>>) < RowIndexOf(<<b.ln, b.fn>>)

\* Two players share a rank, the one first in the dict having the greater
\* surname, and a third player has other totals.
C4_Witness ==
    /\ pc = "done"
    /\ Len(player_data) = 3
    /\ StrLess(player_data[2].key[1], player_data[1].key[1])
    /\ \E i \in 1..2 :
          /\ RowRank(ranked_rows[i]) = RowRank(ranked_rows[i + 1])
          /\ RowKey(ranked_rows[i]) = player_data[2].key
          /\ RowKey(ranked_rows[i + 1]) = player_data[1].key

C6_BadScoreRowSkipped ==
    [][ ( /\ Len(scanned') = Len(scanned) + 1
          /\ ~ParsesAsReal(scanned'[Len(scanned')].row.sc) )
        => /\ player_to_data' = player_to_data
           /\ pc' \in {"rows", "sheets"}
           /\ r' = r + 1 ]_vars

\* The contributions <<points, score>> of the entry e of the mapping that a
\* table of the kk best counts in play_count and in the totals.
Kept(e, kk) ==
    LET zipped == zip(e.points, e.scores)
    IN  TopCombined(sort(zipped, [i \in 1..Len(zipped) |-> CombinedKey(zipped[i])]), kk)

\* The rows read that are as row is: of the same player, without points, with
\* the same score.
SameDefaulted(row) ==
    {j \in 1..Len(scanned) :
        /\ PointsNotReal(ScannedRows[j])
        /\ Identity(ScannedRows[j]) = Identity(row)
        /\ float(ScannedRows[j].sc).val = float(row.sc).val}

\* C7: reading a row with a name and a score whose points are empty or are
\* not read as a real number appends its score to the player's scores and 0.0
\* to the player's points, at the same index, and the loop goes on; and in
\* the table every such row is among the contributions that play_count and
\* total_score count.
C7_MissingPointsAreZero ==
    /\ [][ ( /\ Len(scanned') = Len(scanned) + 1
             /\ PointsNotReal(scanned'[Len(scanned')].row) )
           => LET row == scanned'[Len(scanned')].row
                  key == Identity(row)
                  old == IndexOfKey(player_to_data, key)
                  new == IndexOfKey(player_to_data', key)
                  old_scores == IF old = 0 THEN <<>> ELSE player_to_data[old].scores
                  old_points == IF old = 0 THEN <<>> ELSE player_to_data[old].points
              IN  /\ new # 0
                  /\ player_to_data'[new].scores = Append(old_scores, float(row.sc).val)
                  /\ player_to_data'[new].points = Append(old_points, Fin(0))
                  /\ Len(old_scores) = Len(old_points)
                  /\ pc' \in {"rows", "sheets"} ]_vars
    /\ [](pc = "done" =>
            \A i \in 1..Len(scanned) :
                PointsNotReal(ScannedRows[i]) =>
                    LET row == ScannedRows[i]
                        at == IndexOfKey(player_data, Identity(row))
                        kept == Kept(player_data[at], k)
                    IN  /\ at # 0
                        /\ Cardinality({j \in 1..Len(kept) :
                                kept[j] = <<Fin(0), float(row.sc).val>>})
                              >= Cardinality(SameDefaulted(row)))

\* The mapping d with its players in the order p.
PermutePlayers(d, p) == [i \in 1..Len(d) |-> d[p[i]]]

\* The mapping d with the contributions of player i in the order q.
PermuteContributions(d, i, q) ==
    [d EXCEPT ![i].scores = [x \in 1..Len(@) |-> @[q[x]]],
              ![i].points = [x \in 1..Len(@) |-> @[q[x]]]]

\* C8: the result is the same for the mapping with its players inserted in
\* another order, and with a player's contributions met in another order.
C8_OrderIndependent ==
    pc = "done" =>
        /\ \A p \in Perms(Len(player_data)) :
              /\ RankedRows(PermutePlayers(player_data, p), k) = ranked_rows
              /\ Headers(k) = headers
        /\ \A i \in 1..Len(player_data) :
              \A q \in Perms(Len(player_data[i].scores)) :
                  RankedRows(PermuteContributions(player_data, i, q), k) = ranked_rows

C10_SlotsArePaddedTopPoints ==
    pc = "done" =>
        /\ WellFormedRows
        /\ \A p \in 1..Len(player_data) :
              LET e == player_data[p]
                  n == Len(e.points)
                  ri == RowIndexOf(e.key)
                  row == ranked_rows[ri]
                  m == RowPlayCount(row)
              IN  /\ ri # 0
                  /\ m = Min(k, n)
                  /\ \A i \in 1..k :
                        IF i <= m THEN IsNumber(RowSlot(row, i))
                        ELSE RowSlot(row, i) = Str(<<>>)
                  /\ \A i, j \in 1..m :
                        i < j => PyGe(RowSlot(row, i), RowSlot(row, j))
                  /\ \E S \in SUBSET (1..n) :
                        /\ Cardinality(S) = m
                        /\ \A i \in S : \A j \in (1..n) \ S :
                              PyGe(e.points[i], e.points[j])
                        /\ \A v \in {e.points[i] : i \in 1..n} :
                              Cardinality({i \in S : e.points[i] = v})
                                  = Cardinality({i \in 1..m : RowSlot(row, i) = v})

=============================================================================
